---------------------------- MODULE Spec2Model ----------------------------
(***************************************************************************)
(* A model of the CARN-pytorch building blocks (src/src/model/ops.py) and  *)
(* of the ResNet-style super-resolution network assembled from them        *)
(* (src/src/model/resnet_a.py).                                            *)
(*                                                                         *)
(* Three specifications share the variables:                               *)
(*   Spec      modules are constructed and called on tensors that are      *)
(*             tracked by shape (channels, height, width);                 *)
(*   SpecMS    the mean-shift layers are tracked by value, in float32      *)
(*             arithmetic, together with the parameters' requires_grad     *)
(*             flags, weight initialisation and optimiser steps;           *)
(*   SpecPure  forward passes are run over a heap of tensor objects, so    *)
(*             that in-place modification and aliasing are observable.     *)
(***************************************************************************)
EXTENDS Integers, Sequences, FiniteSets, TLC

VARIABLES
    mod,      \* Spec: the module object the client holds
    x,        \* Spec: the tensor (shape) last passed to forward
    res,      \* Spec: the outcome of the last constructor or forward call
    op,       \* Spec: the last operation, "start" | "init" | "forward" | "Net"
    args,     \* Spec: the arguments the client gave to the constructor
    registry, \* SpecMS: module name -> the parameters of that nn.Conv2d
    mean,     \* SpecMS: the mean_rgb the mean-shift layers were built with
    tens,     \* SpecMS: the tensor (one pixel, three channels) being processed
    x0,       \* SpecMS: the tensor given to sub_mean
    phase,    \* SpecMS: "start" | "built" | "in" | "sub" | "out"
    pmod,     \* SpecPure: the module object: class, attributes and weights
    pmod0,    \* SpecPure: the module object as its constructor returned it
    pin,      \* SpecPure: the caller's input tensor: value before and after
    pout,     \* SpecPure: the returned tensor: its value, and whether it is the input
    seen      \* SpecPure: <<input value, output value>> of the calls so far

shapeVars == <<mod, x, res, op, args>>
msVars    == <<registry, mean, tens, x0, phase>>
pureVars  == <<pmod, pmod0, pin, pout, seen>>
vars      == <<shapeVars, msVars, pureVars>>

(***************************************************************************)
(* Bounds of the model.                                                    *)
(***************************************************************************)
MaxCh  == 4     \* channel counts given to constructors and inputs: 1..MaxCh
MaxHW  == 3     \* input heights and widths: 1..MaxHW
MaxDil == 4     \* dilations: 1..MaxDil
MaxScale == 9   \* integer scale arguments: 1..MaxScale

(***************************************************************************)
(* Python values and call binding.                                         *)
(***************************************************************************)
None    == [kind |-> "None"]
False   == [kind |-> "False"]
PyInt(n) == [kind |-> "int", v |-> n]

\* Python's ==  between a scale argument and an int literal.
PyEq(a, n) == a.kind = "int" /\ a.v = n

\* Truth value of an object: None and False are false, an nn.Module is true
\* unless it defines __len__ (nn.Sequential) and is empty.
Truthy(v) ==
    CASE v.kind \in {"None", "False"} -> FALSE
      [] v.kind = "Sequential"        -> Len(v.children) > 0
      [] OTHER                        -> TRUE

\* A call binds when the positional arguments fit, every keyword names a
\* parameter not already bound positionally, and every parameter without a
\* default is bound.  params excludes self; the last ndefault have defaults.
BindOK(params, ndefault, npos, kw) ==
    /\ npos <= Len(params)
    /\ kw \subseteq {params[i] : i \in (npos + 1)..Len(params)}
    /\ \A i \in 1..(Len(params) - ndefault) : i <= npos \/ params[i] \in kw

(***************************************************************************)
(* Tensors by shape, and outcomes of calls.                                *)
(***************************************************************************)
Tensor(c, h, w) == [c |-> c, h |-> h, w |-> w]
NoTensor == Tensor(0, 0, 0)
Ok(t)  == [ok |-> TRUE,  t |-> t,        err |-> ""]
Err(e) == [ok |-> FALSE, t |-> NoTensor, err |-> e]

Max(a, b) == IF a >= b THEN a ELSE b

\* Two sizes broadcast when they are equal or one of them is 1.
Broadcastable(a, b) == a = b \/ a = 1 \/ b = 1

\* out + x on tensors: elementwise with broadcasting.
TensorAdd(a, b) ==
    IF Broadcastable(a.c, b.c) /\ Broadcastable(a.h, b.h) /\ Broadcastable(a.w, b.w)
    THEN Ok(Tensor(Max(a.c, b.c), Max(a.h, b.h), Max(a.w, b.w)))
    ELSE Err("RuntimeError")

\* torch.cat((a, b), dim=1): the other dimensions must agree.
TensorCat(a, b) ==
    IF a.h = b.h /\ a.w = b.w
    THEN Ok(Tensor(a.c + b.c, a.h, a.w))
    ELSE Err("RuntimeError")

(***************************************************************************)
(* The layers of the tensor library that ops.py instantiates.              *)
(***************************************************************************)
ReLU == [kind |-> "ReLU"]

Conv2d(in_channels, out_channels, kernel_size, stride, padding, dilation, bias) ==
    [kind |-> "Conv2d", in_channels |-> in_channels, out_channels |-> out_channels,
     kernel_size |-> kernel_size, stride |-> stride, padding |-> padding,
     dilation |-> dilation, bias |-> bias]

PixelShuffle(upscale_factor) ==
    [kind |-> "PixelShuffle", upscale_factor |-> upscale_factor]

Sequential(children) == [kind |-> "Sequential", children |-> children]

\* Output size of a convolution along one spatial dimension.
ConvSize(n, m) ==
    (n + 2 * m.padding - m.dilation * (m.kernel_size - 1) - 1) \div m.stride + 1

Conv2d_forward(self, t) ==
    IF t.c # self.in_channels THEN Err("RuntimeError")
    ELSE IF \/ t.h + 2 * self.padding < self.dilation * (self.kernel_size - 1) + 1
            \/ t.w + 2 * self.padding < self.dilation * (self.kernel_size - 1) + 1
         THEN Err("RuntimeError")
    ELSE Ok(Tensor(self.out_channels, ConvSize(t.h, self), ConvSize(t.w, self)))

PixelShuffle_forward(self, t) ==
    LET r == self.upscale_factor IN
    IF t.c % (r * r) # 0 THEN Err("RuntimeError")
    ELSE Ok(Tensor(t.c \div (r * r), t.h * r, t.w * r))


(***************************************************************************)
(* Attribute lookup and module calls.                                      *)
(***************************************************************************)
\* getattr(self, name, default): nn.Module raises AttributeError for a name
\* that was never assigned, and getattr then returns the default.
GetAttr(self, name, default) ==
    IF name \in DOMAIN self THEN self[name] ELSE default

RECURSIVE Forward(_, _)
RECURSIVE Sequential_forward(_, _)

\* nn.Sequential.forward: feed the input through the children in order; an
\* empty Sequential returns its input.
Sequential_forward(children, r) ==
    IF ~r.ok \/ children = <<>> THEN r
    ELSE Sequential_forward(Tail(children), Forward(Head(children), r.t))

(***************************************************************************)
(* ops.py: the blocks.                                                     *)
(***************************************************************************)
MeanShiftShape ==
    [kind |-> "MeanShift", shifter |-> Conv2d(3, 3, 1, 1, 0, 1, TRUE)]

MeanShift_forward(self, t) == Forward(self.shifter, t)

\* Variant: the padding fixed at 1 instead of following the dilation.
BasicBlock_pad1(in_channels, out_channels, dilation, act) ==
    [kind |-> "BasicBlock",
     body |-> Sequential(<<Conv2d(in_channels, out_channels, 3, 1, 1, dilation, FALSE),
                           act>>)]

BasicBlock(in_channels, out_channels, dilation, act) ==
    LET pad == dilation IN
    [kind |-> "BasicBlock",
     body |-> Sequential(<<Conv2d(in_channels, out_channels, 3, 1, pad, dilation, FALSE),
                           act>>)]

BasicBlock_forward(self, t) == Forward(self.body, t)

\* int(out_channels/2): true division, then truncation towards zero.
IntHalf(n) == n \div 2

MDBlock(in_channels, out_channels, dilation, act) ==
    [kind |-> "MDBlock",
     branch0 |-> BasicBlock(in_channels, IntHalf(out_channels), dilation[1], act),
     branch1 |-> BasicBlock(in_channels, IntHalf(out_channels), dilation[2], act),
     exit |-> Sequential(<<Conv2d(out_channels, out_channels, 1, 1, 0, 1, FALSE), act>>)]

MDBlock_forward(self, t) ==
    LET branch0 == Forward(self.branch0, t)
        branch1 == Forward(self.branch1, t)
    IN  IF ~branch0.ok THEN branch0
        ELSE IF ~branch1.ok THEN branch1
        ELSE LET out == TensorCat(branch0.t, branch1.t) IN
             IF ~out.ok THEN out ELSE Forward(self.exit, out.t)

\* Variant: the identity convolution created whatever the channel counts.
ResidualBlock_always_identity(in_channels, out_channels, dilation, act) ==
    LET pad == dilation IN
    [kind |-> "ResidualBlock",
     body |-> Sequential(<<Conv2d(in_channels, out_channels, 3, 1, pad, dilation, FALSE),
                           act,
                           Conv2d(out_channels, out_channels, 3, 1, pad, dilation, FALSE)>>),
     act |-> act,
     identity |-> Conv2d(in_channels, out_channels, 1, 1, 0, 1, FALSE)]

ResidualBlock(in_channels, out_channels, dilation, act) ==
    LET pad == dilation
        self == [kind |-> "ResidualBlock",
                 body |-> Sequential(
                     <<Conv2d(in_channels, out_channels, 3, 1, pad, dilation, FALSE),
                       act,
                       Conv2d(out_channels, out_channels, 3, 1, pad, dilation, FALSE)>>),
                 act |-> act]
    IN  IF ~(in_channels = out_channels)
        THEN [kind |-> "ResidualBlock", body |-> self.body, act |-> act,
              identity |-> Conv2d(in_channels, out_channels, 1, 1, 0, 1, FALSE)]
        ELSE self

ResidualBlock_forward(self, t) ==
    LET out == Forward(self.body, t)
        identity == GetAttr(self, "identity", None)
        x1 == IF Truthy(identity) THEN Forward(identity, t) ELSE Ok(t)
    IN  IF ~out.ok THEN out
        ELSE IF ~x1.ok THEN x1
        ELSE LET sum == TensorAdd(out.t, x1.t) IN
             IF ~sum.ok THEN sum ELSE Forward(self.act, sum.t)

MDRBlockA(in_channels, out_channels, dilation, act) ==
    [kind |-> "MDRBlockA",
     branch0 |-> ResidualBlock(in_channels, IntHalf(out_channels), dilation[1], act),
     branch1 |-> ResidualBlock(in_channels, IntHalf(out_channels), dilation[2], act),
     exit |-> Sequential(<<Conv2d(out_channels, out_channels, 1, 1, 0, 1, FALSE), act>>)]

MDRBlockA_forward(self, t) ==
    LET branch0 == Forward(self.branch0, t)
        branch1 == Forward(self.branch1, t)
    IN  IF ~branch0.ok THEN branch0
        ELSE IF ~branch1.ok THEN branch1
        ELSE LET cat == TensorCat(branch0.t, branch1.t) IN
             IF ~cat.ok THEN cat
             ELSE LET out == Forward(self.exit, cat.t) IN
                  IF ~out.ok THEN out ELSE TensorAdd(out.t, t)

MDRBlockB(in_channels, reduce_channels, out_channels, dilation, act) ==
    [kind |-> "MDRBlockB",
     branch1 |-> Sequential(
         <<Conv2d(in_channels, reduce_channels, 1, 1, 0, 1, FALSE),
           act,
           ResidualBlock(reduce_channels, reduce_channels, dilation[1], act)>>),
     branch2 |-> Sequential(
         <<Conv2d(in_channels, reduce_channels, 1, 1, 0, 1, FALSE),
           act,
           ResidualBlock(reduce_channels, reduce_channels, dilation[2], act)>>),
     exit |-> Sequential(
         <<Conv2d(reduce_channels * 2, out_channels, 1, 1, 0, 1, FALSE), act>>)]

MDRBlockB_forward(self, t) ==
    LET branch1 == Forward(self.branch1, t)
        branch2 == Forward(self.branch2, t)
    IN  IF ~branch1.ok THEN branch1
        ELSE IF ~branch2.ok THEN branch2
        ELSE LET cat == TensorCat(branch1.t, branch2.t) IN
             IF ~cat.ok THEN cat
             ELSE LET out == Forward(self.exit, cat.t) IN
                  IF ~out.ok THEN out ELSE TensorAdd(out.t, t)

\* int(math.log(scale, 2)) for the scales that reach it: the quotient
\* log(scale)/log(2) in doubles is exactly 1.0, 2.0 and 3.0 for 2, 4 and 8.
RECURSIVE IntLog2(_)
IntLog2(n) == IF n <= 1 THEN 0 ELSE 1 + IntLog2(n \div 2)

\* modules += [...] repeated k times.
RECURSIVE Repeat(_, _)
Repeat(stage, k) == IF k <= 0 THEN <<>> ELSE stage \o Repeat(stage, k - 1)

\* One pass of the loop body at lines 181-184 (factor 2) or 186-189 (factor 3).
\* Variant: the convolution widens by factor instead of factor^2.
UpsampleStage_half(n_channels, factor, act) ==
    <<Conv2d(n_channels, factor * n_channels, 3, 1, 1, 1, TRUE), PixelShuffle(factor)>>
    \o (IF Truthy(act) THEN <<act>> ELSE <<>>)

UpsampleStage(n_channels, factor, act) ==
    <<Conv2d(n_channels, factor * factor * n_channels, 3, 1, 1, 1, TRUE),
      PixelShuffle(factor)>>
    \o (IF Truthy(act) THEN <<act>> ELSE <<>>)

\* Variant: a final else in place of elif scale == 3.
UpsampleBlock_else3(n_channels, scale, act) ==
    [kind |-> "UpsampleBlock",
     body |-> Sequential(
        IF PyEq(scale, 2) \/ PyEq(scale, 4) \/ PyEq(scale, 8)
        THEN Repeat(UpsampleStage(n_channels, 2, act), IntLog2(scale.v))
        ELSE UpsampleStage(n_channels, 3, act))]

UpsampleBlock(n_channels, scale, act) ==
    LET modules ==
            IF PyEq(scale, 2) \/ PyEq(scale, 4) \/ PyEq(scale, 8)
            THEN Repeat(UpsampleStage(n_channels, 2, act), IntLog2(scale.v))
            ELSE IF PyEq(scale, 3)
            THEN UpsampleStage(n_channels, 3, act)
            ELSE <<>>
    IN  [kind |-> "UpsampleBlock", body |-> Sequential(modules)]

UpsampleBlock_forward(self, t) == Forward(self.body, t)

\* nn.Module.__call__: dispatch to the forward of the module's class.
Forward(m, t) ==
    CASE m.kind = "Conv2d"        -> Conv2d_forward(m, t)
      [] m.kind = "ReLU"          -> Ok(t)
      [] m.kind = "PixelShuffle"  -> PixelShuffle_forward(m, t)
      [] m.kind = "Sequential"    -> Sequential_forward(m.children, Ok(t))
      [] m.kind = "MeanShift"     -> MeanShift_forward(m, t)
      [] m.kind = "BasicBlock"    -> BasicBlock_forward(m, t)
      [] m.kind = "MDBlock"       -> MDBlock_forward(m, t)
      [] m.kind = "ResidualBlock" -> ResidualBlock_forward(m, t)
      [] m.kind = "MDRBlockA"     -> MDRBlockA_forward(m, t)
      [] m.kind = "MDRBlockB"     -> MDRBlockB_forward(m, t)
      [] m.kind = "UpsampleBlock" -> UpsampleBlock_forward(m, t)

\* The parameters, after self, of each class's __init__ and forward, and how
\* many of the trailing ones have defaults.
InitParams(kind) ==
    CASE kind = "UpsampleBlock" -> <<"n_channels", "scale", "act">>
      [] kind = "MeanShift"     -> <<"mean_rgb", "sub">>
      [] kind = "MDRBlockB"     ->
            <<"in_channels", "reduce_channels", "out_channels", "dilation", "act">>
      [] OTHER -> <<"in_channels", "out_channels", "dilation", "act">>

InitDefaults(kind) ==
    CASE kind = "UpsampleBlock" -> 1
      [] kind = "MeanShift"     -> 0
      [] OTHER -> 2

ForwardParams(kind) == <<"x">>

(***************************************************************************)
(* resnet_a.py: the network.                                               *)
(***************************************************************************)
\* kwargs.get(name, default)
KwGet(kwargs, name, default) ==
    IF name \in DOMAIN kwargs THEN kwargs[name] ELSE default

\* Calling a class: on a binding failure the call raises TypeError before
\* __init__ runs, and no object is returned.
Construct(kind, npos, kw, self) ==
    IF BindOK(InitParams(kind), InitDefaults(kind), npos, kw)
    THEN [ok |-> TRUE, self |-> self, err |-> ""]
    ELSE [ok |-> FALSE, self |-> None, err |-> "TypeError"]

\* Calling a module with one positional tensor and the keywords kw.
Call(m, t, kw) ==
    IF BindOK(ForwardParams(m.kind), 0, 1, kw) THEN Forward(m, t) ELSE Err("TypeError")

Net_init(kwargs) ==
    LET scale == KwGet(kwargs, "scale", None)
        multi_scale == KwGet(kwargs, "multi_scale", None)
        reduce_upsample == KwGet(kwargs, "reduce_upsample", False)
        upsample == Construct("UpsampleBlock", 1, {"scale", "multi_scale", "reduce"},
                              UpsampleBlock(64, scale, False))
    IN  IF ~upsample.ok THEN upsample
        ELSE [ok |-> TRUE, err |-> "",
              self |-> [kind |-> "Net",
                        sub_mean |-> MeanShiftShape,
                        add_mean |-> MeanShiftShape,
                        relu |-> ReLU,
                        entry |-> Conv2d(3, 64, 3, 1, 1, 1, TRUE),
                        body |-> Sequential(Repeat(<<ResidualBlock(64, 64, 1, ReLU)>>, 9)),
                        upsample |-> upsample.self,
                        exit |-> Sequential(<<Conv2d(64, 3, 3, 1, 1, 1, TRUE)>>)]]

Net_forward(self, t, scale) ==
    LET x1 == Forward(self.sub_mean, t)
        x2 == IF x1.ok THEN Forward(self.entry, x1.t) ELSE x1
        out1 == IF x2.ok THEN Forward(self.body, x2.t) ELSE x2
        out2 == IF out1.ok THEN Call(self.upsample, out1.t, {"scale"}) ELSE out1
        out3 == IF out2.ok THEN Forward(self.exit, out2.t) ELSE out2
    IN  IF out3.ok THEN Forward(self.add_mean, out3.t) ELSE out3

(***************************************************************************)
(* Spec: a client constructs one module and calls it on tensors.           *)
(***************************************************************************)
Channels   == 1..MaxCh
Sizes      == 1..MaxHW
Dilations  == 1..MaxDil
\* dilation=[2, 4] is the default of the multi-branch blocks.
DilationPairs == {<<2, 4>>, <<1, 1>>, <<1, MaxDil>>}
ScaleArgs  == {PyInt(n) : n \in 1..MaxScale} \cup {None}
Inputs     == {Tensor(c, h, w) : c \in Channels, h \in Sizes, w \in Sizes}

InitShape ==
    /\ mod = None
    /\ x = NoTensor
    /\ res = Ok(NoTensor)
    /\ op = "start"
    /\ args = [class |-> "None"]

NewMeanShift ==
    /\ op = "start"
    /\ mod' = MeanShiftShape
    /\ args' = [class |-> "MeanShift"]
    /\ op' = "init"
    /\ UNCHANGED <<x, res, msVars, pureVars>>

NewBasicBlock ==
    /\ op = "start"
    /\ \E i \in Channels, o \in Channels, d \in Dilations :
        /\ mod' = BasicBlock(i, o, d, ReLU)
        /\ args' = [class |-> "BasicBlock", in_channels |-> i, out_channels |-> o,
                    dilation |-> d]
    /\ op' = "init"
    /\ UNCHANGED <<x, res, msVars, pureVars>>

\* out_channels = 1 is left out of the multi-branch blocks: int(1/2) = 0 asks
\* for a convolution with no output channel.
NewMDBlock ==
    /\ op = "start"
    /\ \E i \in Channels, o \in 2..MaxCh, d \in DilationPairs :
        /\ mod' = MDBlock(i, o, d, ReLU)
        /\ args' = [class |-> "MDBlock", in_channels |-> i, out_channels |-> o,
                    dilation |-> d]
    /\ op' = "init"
    /\ UNCHANGED <<x, res, msVars, pureVars>>

NewResidualBlock ==
    /\ op = "start"
    /\ \E i \in Channels, o \in Channels, d \in Dilations :
        /\ mod' = ResidualBlock(i, o, d, ReLU)
        /\ args' = [class |-> "ResidualBlock", in_channels |-> i, out_channels |-> o,
                    dilation |-> d]
    /\ op' = "init"
    /\ UNCHANGED <<x, res, msVars, pureVars>>

NewMDRBlockA ==
    /\ op = "start"
    /\ \E i \in Channels, o \in 2..MaxCh, d \in DilationPairs :
        /\ mod' = MDRBlockA(i, o, d, ReLU)
        /\ args' = [class |-> "MDRBlockA", in_channels |-> i, out_channels |-> o,
                    dilation |-> d]
    /\ op' = "init"
    /\ UNCHANGED <<x, res, msVars, pureVars>>

NewMDRBlockB ==
    /\ op = "start"
    /\ \E i \in Channels, r \in Channels, o \in Channels, d \in DilationPairs :
        /\ mod' = MDRBlockB(i, r, o, d, ReLU)
        /\ args' = [class |-> "MDRBlockB", in_channels |-> i, reduce_channels |-> r,
                    out_channels |-> o, dilation |-> d]
    /\ op' = "init"
    /\ UNCHANGED <<x, res, msVars, pureVars>>

NewUpsampleBlock ==
    /\ op = "start"
    /\ \E n \in Channels, s \in ScaleArgs, act \in {False, ReLU} :
        /\ mod' = UpsampleBlock(n, s, act)
        /\ args' = [class |-> "UpsampleBlock", n_channels |-> n, scale |-> s, act |-> act]
    /\ op' = "init"
    /\ UNCHANGED <<x, res, msVars, pureVars>>

\* module(x) on the module the client holds.
MeanShiftForward ==
    /\ op \in {"init", "forward"} /\ mod.kind = "MeanShift"
    /\ \E t \in Inputs : x' = t /\ res' = Call(mod, t, {})
    /\ op' = "forward"
    /\ UNCHANGED <<mod, args, msVars, pureVars>>

BasicBlockForward ==
    /\ op \in {"init", "forward"} /\ mod.kind = "BasicBlock"
    /\ \E t \in Inputs : x' = t /\ res' = Call(mod, t, {})
    /\ op' = "forward"
    /\ UNCHANGED <<mod, args, msVars, pureVars>>

MDBlockForward ==
    /\ op \in {"init", "forward"} /\ mod.kind = "MDBlock"
    /\ \E t \in Inputs : x' = t /\ res' = Call(mod, t, {})
    /\ op' = "forward"
    /\ UNCHANGED <<mod, args, msVars, pureVars>>

ResidualBlockForward ==
    /\ op \in {"init", "forward"} /\ mod.kind = "ResidualBlock"
    /\ \E t \in Inputs : x' = t /\ res' = Call(mod, t, {})
    /\ op' = "forward"
    /\ UNCHANGED <<mod, args, msVars, pureVars>>

MDRBlockAForward ==
    /\ op \in {"init", "forward"} /\ mod.kind = "MDRBlockA"
    /\ \E t \in Inputs : x' = t /\ res' = Call(mod, t, {})
    /\ op' = "forward"
    /\ UNCHANGED <<mod, args, msVars, pureVars>>

MDRBlockBForward ==
    /\ op \in {"init", "forward"} /\ mod.kind = "MDRBlockB"
    /\ \E t \in Inputs : x' = t /\ res' = Call(mod, t, {})
    /\ op' = "forward"
    /\ UNCHANGED <<mod, args, msVars, pureVars>>

UpsampleBlockForward ==
    /\ op \in {"init", "forward"} /\ mod.kind = "UpsampleBlock"
    /\ \E t \in Inputs : x' = t /\ res' = Call(mod, t, {})
    /\ op' = "forward"
    /\ UNCHANGED <<mod, args, msVars, pureVars>>

\* net = Net(scale=s, multi_scale=m, reduce_upsample=r) followed by
\* net.forward(x, s).  When the constructor raises, no Net object exists and
\* forward is never entered.
NetConstructAndForward ==
    /\ op = "start"
    \* multi_scale and reduce_upsample are bools, held as the ints 0 and 1
    /\ \E s \in ScaleArgs, m \in {PyInt(0), PyInt(1)}, withReduce \in BOOLEAN, t \in Inputs :
        LET kwargs == IF withReduce
                      THEN [scale |-> s, multi_scale |-> m, reduce_upsample |-> PyInt(0)]
                      ELSE [scale |-> s, multi_scale |-> m]
            net == Net_init(kwargs)
        IN  /\ args' = [class |-> "Net", kwargs |-> kwargs, scale |-> s]
            /\ mod' = net.self
            /\ x' = t
            /\ res' = IF net.ok THEN Net_forward(net.self, t, s) ELSE Err(net.err)
    /\ op' = "Net"
    /\ UNCHANGED <<msVars, pureVars>>

NextShape ==
    \/ NewMeanShift \/ NewBasicBlock \/ NewMDBlock \/ NewResidualBlock
    \/ NewMDRBlockA \/ NewMDRBlockB \/ NewUpsampleBlock
    \/ MeanShiftForward \/ BasicBlockForward \/ MDBlockForward
    \/ ResidualBlockForward \/ MDRBlockAForward \/ MDRBlockBForward
    \/ UpsampleBlockForward
    \/ NetConstructAndForward

\* The variables of SpecMS and SpecPure before anything is constructed.
InitMS ==
    /\ registry = <<>>
    /\ mean = <<0, 0, 0>>
    /\ tens = <<0, 0, 0>>
    /\ x0 = <<0, 0, 0>>
    /\ phase = "start"

InitPure ==
    /\ pmod = None
    /\ pmod0 = None
    /\ pin = [before |-> 0, after |-> 0]
    /\ pout = [value |-> 0, isInput |-> FALSE]
    /\ seen = {}

Init == InitShape /\ InitMS /\ InitPure
Next == NextShape
Spec == Init /\ [][Next]_vars

SupportedScales == {2, 3, 4, 8}

(***************************************************************************)
(* C1.  For every supported scale s, Net(scale=s, multi_scale=...,         *)
(* reduce_upsample=...) followed by forward(x, s) on a 3-channel H x W     *)
(* input completes without an error and returns a 3-channel s*H x s*W      *)
(* output.                                                                 *)
(***************************************************************************)
C1_NetForwardCompletes ==
    (/\ op = "Net"
     /\ args.scale.kind = "int" /\ args.scale.v \in SupportedScales
     /\ x.c = 3)
    => /\ res.ok
       /\ res.t = Tensor(3, args.scale.v * x.h, args.scale.v * x.w)

(***************************************************************************)
(* C2.  UpsampleBlock(n_channels, scale), with the default act, has as     *)
(* its body log2(scale) stages [Conv2d(n -> 4n), PixelShuffle(2)] for      *)
(* scale 2, 4, 8 and one stage [Conv2d(n -> 9n), PixelShuffle(3)] for      *)
(* scale 3, and maps (n_channels, H, W) to (n_channels, scale*H, scale*W). *)
(***************************************************************************)
StageIs(children, j, n, factor) ==
    /\ children[2 * j - 1].kind = "Conv2d"
    /\ children[2 * j - 1].in_channels = n
    /\ children[2 * j - 1].out_channels = factor * factor * n
    /\ children[2 * j].kind = "PixelShuffle"
    /\ children[2 * j].upscale_factor = factor

C2_UpsampleByScale ==
    (/\ op \in {"init", "forward"}
     /\ args.class = "UpsampleBlock"
     /\ args.act = False
     /\ args.scale.kind = "int" /\ args.scale.v \in SupportedScales)
    => LET s == args.scale.v
           n == args.n_channels
           children == mod.body.children
           k == CASE s = 2 -> 1 [] s = 4 -> 2 [] s = 8 -> 3 [] s = 3 -> 1
           factor == IF s = 3 THEN 3 ELSE 2
       IN  /\ Len(children) = 2 * k
           /\ \A j \in 1..k : StageIs(children, j, n, factor)
           /\ (op = "forward" /\ x.c = n)
                => res = Ok(Tensor(n, s * x.h, s * x.w))

C2_Witness ==
    /\ op = "forward" /\ args.class = "UpsampleBlock" /\ args.act = False
    /\ args.scale = PyInt(8) /\ x.c = args.n_channels /\ x.h = 2
    /\ res.ok /\ res.t.h = 16

(***************************************************************************)
(* C5.  ResidualBlock has the 1x1 identity convolution in_channels ->      *)
(* out_channels if and only if in_channels # out_channels; forward on an   *)
(* in_channels input returns out_channels channels in both cases.          *)
(***************************************************************************)
C5_ResidualShortcut ==
    (op \in {"init", "forward"} /\ args.class = "ResidualBlock")
    => /\ ("identity" \in DOMAIN mod) <=> (args.in_channels # args.out_channels)
       /\ ("identity" \in DOMAIN mod) =>
             /\ mod.identity.kind = "Conv2d"
             /\ mod.identity.kernel_size = 1
             /\ mod.identity.in_channels = args.in_channels
             /\ mod.identity.out_channels = args.out_channels
       /\ (op = "forward" /\ x.c = args.in_channels)
             => res.ok /\ res.t.c = args.out_channels

C5_Witness ==
    /\ op = "forward" /\ args.class = "ResidualBlock"
    /\ args.in_channels = 3 /\ args.out_channels = 2 /\ x.c = 3
    /\ "identity" \in DOMAIN mod
    /\ res.ok /\ res.t.c = 2

(***************************************************************************)
(* C6.  BasicBlock and ResidualBlock preserve the spatial size of their    *)
(* input for every dilation d >= 1 and all H, W >= 1.                      *)
(***************************************************************************)
C6_SpatialSizePreserved ==
    (/\ op = "forward"
     /\ args.class \in {"BasicBlock", "ResidualBlock"}
     /\ x.c = args.in_channels)
    => res.ok /\ res.t.h = x.h /\ res.t.w = x.w

C6_Witness ==
    /\ op = "forward" /\ args.class = "BasicBlock"
    /\ args.dilation = MaxDil /\ x.c = args.in_channels /\ x.h = 1 /\ x.w = 2
    /\ res.ok /\ res.t.h = 1 /\ res.t.w = 2

(***************************************************************************)
(* C7.  In MDBlock and MDRBlockA, for every out_channels >= 1, the         *)
(* concatenation of the two branch outputs has exactly out_channels        *)
(* channels, the input channel count of the exit convolution.              *)
(***************************************************************************)
C7_ConcatMatchesExit ==
    (/\ op = "forward"
     /\ args.class \in {"MDBlock", "MDRBlockA"}
     /\ x.c = args.in_channels)
    => LET branch0 == Forward(mod.branch0, x)
           branch1 == Forward(mod.branch1, x)
       IN  /\ branch0.ok /\ branch1.ok
           /\ branch0.t.c + branch1.t.c = args.out_channels
           /\ branch0.t.c + branch1.t.c = mod.exit.children[1].in_channels

(***************************************************************************)
(* C8.  In MDRBlockA and MDRBlockB, for every in_channels and              *)
(* out_channels, exit(out) + x adds two tensors of the same channel count  *)
(* and the block maps an in_channels input to an out_channels output of    *)
(* the same spatial size.                                                  *)
(***************************************************************************)
C8_ResidualAddChannelsAgree ==
    (/\ op = "forward"
     /\ args.class \in {"MDRBlockA", "MDRBlockB"}
     /\ x.c = args.in_channels)
    => /\ mod.exit.children[1].out_channels = x.c
       /\ res = Ok(Tensor(args.out_channels, x.h, x.w))

(***************************************************************************)
(* C10.  UpsampleBlock constructed with a scale outside {2, 3, 4, 8}       *)
(* raises no error, has an empty body, and forward returns its input.      *)
(***************************************************************************)
C10_UnsupportedScaleIsIdentity ==
    (/\ op \in {"init", "forward"}
     /\ args.class = "UpsampleBlock"
     /\ ~(args.scale.kind = "int" /\ args.scale.v \in SupportedScales))
    => /\ mod.kind = "UpsampleBlock"
       /\ mod.body.children = <<>>
       /\ op = "forward" => res = Ok(x)

C10_Witness ==
    /\ op = "forward" /\ args.class = "UpsampleBlock"
    /\ args.scale = None /\ res = Ok(x) /\ x.h = 2

(***************************************************************************)
(* SpecMS: the mean-shift layers by value.                                 *)
(*                                                                         *)
(* Tensor elements and parameters are float32 (torch.Tensor and nn.Conv2d  *)
(* parameters).  A value is held as an integer count of units of 2^-30,    *)
(* so every value used below is a float32 exactly, and Fl32 rounds an      *)
(* exact result to the nearest float32, ties to even.                      *)
(***************************************************************************)
Precision == 24

Abs(n) == IF n < 0 THEN -n ELSE n

\* The distance between neighbouring float32 values at magnitude a.
RECURSIVE SpacingFrom(_, _)
SpacingFrom(a, s) == IF a \div s < 2 ^ Precision THEN s ELSE SpacingFrom(a, 2 * s)
Ulp(n) == SpacingFrom(Abs(n), 1)

Fl32(n) ==
    LET a == Abs(n)
        s == Ulp(n)
        q == a \div s
        r == a % s
        up == IF 2 * r > s \/ (2 * r = s /\ q % 2 = 1) THEN 1 ELSE 0
    IN  (IF n < 0 THEN -1 ELSE 1) * (q + up) * s

FAdd(a, b) == Fl32(a + b)
FMul(a, b) == Fl32(a * b)

\* torch.eye(3).view(3, 3, 1, 1): weight[o][i] of a 1x1 convolution.
Eye3  == <<<<1, 0, 0>>, <<0, 1, 0>>, <<0, 0, 1>>>>
Ones3 == <<<<1, 1, 1>>, <<1, 1, 1>>, <<1, 1, 1>>>>
Zero3 == <<<<0, 0, 0>>, <<0, 0, 0>>, <<0, 0, 0>>>>

Param(data) == [data |-> data, requires_grad |-> TRUE]

\* nn.Conv2d of a 1x1 kernel on one pixel: out[o] = sum_i weight[o][i]*x[i]
\* (+ bias[o]).  With the identity weight the products are x[o] and zeros,
\* so the result is the same in whatever order the engine accumulates.
Conv1x1_forward(m, t) ==
    LET Dot(o) == FAdd(FAdd(FMul(m.weight.data[o][1], t[1]),
                            FMul(m.weight.data[o][2], t[2])),
                       FMul(m.weight.data[o][3], t[3]))
        Out(o) == IF "bias" \in DOMAIN m THEN FAdd(Dot(o), m.bias.data[o]) ELSE Dot(o)
    IN  <<Out(1), Out(2), Out(3)>>

\* Variant: the freeze loop left out.
Freeze_none(m) == m

\* for params in self.shifter.parameters(): params.requires_grad = False
Freeze(m) == [p \in DOMAIN m |-> [m[p] EXCEPT !.requires_grad = FALSE]]

\* MeanShift.__init__: the shifter is a 3 -> 3 1x1 convolution, its weight
\* overwritten by the identity and its bias by the signed mean, then frozen.
\* w0 and b0 are the values nn.Conv2d initialised it with.
\* Variant: sign = -1 whatever sub is.
MeanShift_negative(mean_rgb, sub, w0, b0) ==
    LET sign == -1
    IN  Freeze([weight |-> Param(Eye3),
                bias |-> Param(<<Fl32(mean_rgb[1] * sign), Fl32(mean_rgb[2] * sign),
                                 Fl32(mean_rgb[3] * sign)>>)])

MeanShift(mean_rgb, sub, w0, b0) ==
    LET sign == IF sub THEN -1 ELSE 1
        r == mean_rgb[1] * sign
        g == mean_rgb[2] * sign
        b == mean_rgb[3] * sign
        shifter0 == [weight |-> Param(w0), bias |-> Param(b0)]
        shifter1 == [shifter0 EXCEPT !.weight.data = Eye3,
                                     !.bias.data = <<Fl32(r), Fl32(g), Fl32(b)>>]
    IN  Freeze(shifter1)

\* The names of the modules in the tree rooted at root (self.modules()).
IsUnder(name, root) ==
    Len(name) >= Len(root) /\ SubSeq(name, 1, Len(root)) = root

\* init_weights(self.modules): every nn.Conv2d of the tree gets a freshly
\* drawn weight, whatever its requires_grad; fresh[name] is the draw.
init_weights(reg, root, fresh) ==
    [n \in DOMAIN reg |->
        IF IsUnder(n, root) THEN [reg[n] EXCEPT !.weight.data = fresh[n]] ELSE reg[n]]

\* (0.4488, 0.4371, 0.4040) as float32, in units of 2^-30.
NetMeanRGB == <<481895328, 469332544, 433791712>>

MeanArgs == {NetMeanRGB, <<0, 0, 0>>, <<268435456, 1, 481895328>>}

\* Element values: 0, 2^-30, 2/255 as float32, and 0.25.
PixelVals == {0, 1, 8421505, 268435456}

WeightDraws == {Zero3, Ones3}
TrainedWeights == {Eye3, Ones3}

SubMeanName == <<"sub_mean", "shifter">>
AddMeanName == <<"add_mean", "shifter">>
BlockName   == <<"body", "0">>
BlockConvs  == {BlockName \o <<"body", "0">>, BlockName \o <<"body", "2">>}

\* self.sub_mean = ops.MeanShift(mean, sub=True)
\* self.add_mean = ops.MeanShift(mean, sub=False)
MSConstructMeanShifts ==
    /\ phase = "start"
    /\ \E m \in MeanArgs, w0 \in WeightDraws, b0 \in {<<0, 0, 0>>} :
        /\ mean' = m
        /\ registry' = (SubMeanName :> MeanShift(m, TRUE, w0, b0))
                       @@ (AddMeanName :> MeanShift(m, FALSE, w0, b0))
                       @@ registry
    /\ phase' = "built"
    /\ UNCHANGED <<tens, x0, shapeVars, pureVars>>

\* ResidualBlock(n, n): two bias-free convolutions, then
\* init_weights(self.modules) over the block's own tree.
MSConstructResidualBlock ==
    /\ phase # "start"
    /\ \E w0 \in [BlockConvs -> WeightDraws], w1 \in [BlockConvs -> WeightDraws] :
        LET built == [n \in BlockConvs |-> [weight |-> Param(w0[n])]] @@ registry
            fresh == [n \in DOMAIN built |-> IF n \in BlockConvs THEN w1[n] ELSE Ones3]
        IN  registry' = init_weights(built, BlockName, fresh)
    /\ UNCHANGED <<mean, tens, x0, phase, shapeVars, pureVars>>

\* One optimiser update of one parameter; the optimiser is given, and
\* updates, only parameters whose requires_grad is True.
MSTrainStep ==
    /\ phase # "start"
    /\ \E n \in DOMAIN registry, w \in TrainedWeights, b \in PixelVals :
        \/ /\ registry[n].weight.requires_grad
           /\ registry' = [registry EXCEPT ![n].weight.data = w]
        \/ /\ "bias" \in DOMAIN registry[n]
           /\ registry[n].bias.requires_grad
           /\ registry' = [registry EXCEPT ![n].bias.data = <<b, b, b>>]
    /\ UNCHANGED <<mean, tens, x0, phase, shapeVars, pureVars>>

\* A 3-channel input arrives.
MSInput ==
    /\ phase \in {"built", "out"}
    /\ \E r \in PixelVals, g \in PixelVals, b \in PixelVals :
        /\ tens' = <<r, g, b>>
        /\ x0' = <<r, g, b>>
    /\ phase' = "in"
    /\ UNCHANGED <<registry, mean, shapeVars, pureVars>>

\* x = self.sub_mean(x)
MSSubMeanForward ==
    /\ phase = "in"
    /\ tens' = Conv1x1_forward(registry[SubMeanName], tens)
    /\ phase' = "sub"
    /\ UNCHANGED <<registry, mean, x0, shapeVars, pureVars>>

\* out = self.add_mean(out), applied to the output of sub_mean
MSAddMeanForward ==
    /\ phase = "sub"
    /\ tens' = Conv1x1_forward(registry[AddMeanName], tens)
    /\ phase' = "out"
    /\ UNCHANGED <<registry, mean, x0, shapeVars, pureVars>>

NextMS ==
    \/ MSConstructMeanShifts \/ MSConstructResidualBlock \/ MSTrainStep
    \/ MSInput \/ MSSubMeanForward \/ MSAddMeanForward

SpecMS == Init /\ [][NextMS]_vars

(***************************************************************************)
(* C4.  MeanShift(mean_rgb, sub=False) applied to the output of            *)
(* MeanShift(mean_rgb, sub=True) returns x, for every mean_rgb and every   *)
(* 3-channel x.                                                            *)
(***************************************************************************)
C4_RoundTripExact == (phase = "out") => tens = x0

(***************************************************************************)
(* C4, amended.  Each MeanShift is the identity weight with bias           *)
(* -mean_rgb (sub) or +mean_rgb (add); channel c of the output of sub      *)
(* is fl(x_c - mean_c) and depends on no other channel; the round trip     *)
(* returns x_c exactly when x_c - mean_c is a float32, and otherwise a     *)
(* value within one unit in the last place of fl(x_c - mean_c) of x_c.     *)
(***************************************************************************)
C4_RoundTripUpToRounding ==
    (phase # "start")
    => /\ registry[SubMeanName].weight.data = Eye3
       /\ registry[AddMeanName].weight.data = Eye3
       /\ \A c \in 1..3 :
            /\ registry[SubMeanName].bias.data[c] = -mean[c]
            /\ registry[AddMeanName].bias.data[c] = mean[c]
            /\ phase = "sub" => tens[c] = Fl32(x0[c] - mean[c])
            /\ phase = "out" =>
                 /\ Abs(tens[c] - x0[c]) <= Ulp(Fl32(x0[c] - mean[c]))
                 /\ Fl32(x0[c] - mean[c]) = x0[c] - mean[c] => tens[c] = x0[c]

C4_Witness ==
    /\ phase = "out" /\ mean = NetMeanRGB
    /\ x0 = <<8421505, 268435456, 0>>
    /\ tens = <<8421504, 268435456, 0>>

(***************************************************************************)
(* C9.  Once the mean-shift layers are constructed, the shifter weight     *)
(* and bias have requires_grad = False, and after any optimiser updates    *)
(* of requires_grad parameters and any block construction with             *)
(* init_weights on the block's own tree, the weight is still the identity  *)
(* and the bias still the signed mean_rgb.                                 *)
(***************************************************************************)
C9_MeanShiftFrozen ==
    (phase # "start")
    => \A n \in {SubMeanName, AddMeanName} :
         /\ ~registry[n].weight.requires_grad
         /\ ~registry[n].bias.requires_grad
         /\ registry[n].weight.data = Eye3
         /\ registry[n].bias.data =
              IF n = SubMeanName THEN <<-mean[1], -mean[2], -mean[3]>> ELSE mean

C9_Witness ==
    /\ phase = "out"
    /\ mean = NetMeanRGB
    /\ BlockConvs \subseteq DOMAIN registry
    /\ registry[BlockName \o <<"body", "0">>].weight.data = Eye3
    /\ registry[BlockName \o <<"body", "2">>].weight.data = Zero3
    /\ registry[SubMeanName].weight.data = Eye3

(***************************************************************************)
(* SpecPure: forward passes over a heap of tensor objects.                 *)
(*                                                                         *)
(* A tensor object is a heap cell holding an abstract content value in     *)
(* 0..ValMod-1; a local variable or an attribute holds the cell's index.   *)
(* Each forward is run statement by statement on an environment            *)
(* [self, heap, id]: the module object with its weights, the heap, and     *)
(* the tensor the last statement produced.                                 *)
(***************************************************************************)
ValMod == 3

Vals    == 0..(ValMod - 1)
Weights == {1, 2}

ConvVal(w, v)  == (w * v + 1) % ValMod
ReluVal(v)     == IF v = ValMod - 1 THEN 0 ELSE v
ShuffleVal(v)  == v
AddVal(a, b)   == (a + b) % ValMod
CatVal(a, b)   == (2 * a + b + 1) % ValMod

\* The sub-module reached from m by the attribute names / child indices of path.
RECURSIVE Get(_, _)
Get(m, path) ==
    IF path = <<>> THEN m
    ELSE LET f == Head(path)
             child == IF m.kind = "Sequential" THEN m.children[f] ELSE m[f]
         IN  Get(child, Tail(path))

\* init_weights(self.modules) / nn.Conv2d's own initialisation: every
\* nn.Conv2d in the tree holds a weight; w is the value drawn.
RECURSIVE WithWeights(_, _)
WithWeights(m, w) ==
    CASE m.kind = "Conv2d" -> ("weight" :> w) @@ m
      [] m.kind = "Sequential" ->
            [m EXCEPT !.children = [i \in DOMAIN m.children |->
                                        WithWeights(m.children[i], w)]]
      [] m.kind \in {"ReLU", "PixelShuffle", "None", "False"} -> m
      [] OTHER -> [f \in DOMAIN m |-> IF f = "kind" THEN m.kind ELSE WithWeights(m[f], w)]

\* A statement that produces a new tensor object.
Alloc(env, v) ==
    [self |-> env.self, heap |-> Append(env.heap, v), id |-> Len(env.heap) + 1]

\* Variant: x.add_(out), the sum written into the second operand's cell.
Add_into_x(env, a, b) ==
    [self |-> env.self,
     heap |-> [env.heap EXCEPT ![b] = AddVal(env.heap[a], env.heap[b])],
     id |-> b]

\* out + x: a new tensor.
Add_exec(env, a, b) == Alloc(env, AddVal(env.heap[a], env.heap[b]))

\* torch.cat((a, b), dim=1): a new tensor.
Cat_exec(env, a, b) == Alloc(env, CatVal(env.heap[a], env.heap[b]))

RECURSIVE Exec(_, _, _)
RECURSIVE Sequential_exec(_, _, _, _)

\* nn.Sequential.forward from child i on.
Sequential_exec(path, i, env, id) ==
    IF i > Len(Get(env.self, path).children)
    THEN [self |-> env.self, heap |-> env.heap, id |-> id]
    ELSE LET r == Exec(Append(path, i), env, id)
         IN  Sequential_exec(path, i + 1, r, r.id)

\* x = self.shifter(x); return x
MeanShift_exec(path, env, x_) ==
    LET x1 == Exec(Append(path, "shifter"), env, x_)
    IN  x1

\* out = self.body(x); return out
BasicBlock_exec(path, env, x_) == Exec(Append(path, "body"), env, x_)

MDBlock_exec(path, env, x_) ==
    LET branch0 == Exec(Append(path, "branch0"), env, x_)
        branch1 == Exec(Append(path, "branch1"), branch0, x_)
        out == Cat_exec(branch1, branch0.id, branch1.id)
    IN  Exec(Append(path, "exit"), out, out.id)

ResidualBlock_exec(path, env, x_) ==
    LET self == Get(env.self, path)
        out == Exec(Append(path, "body"), env, x_)
        hasId == Truthy(GetAttr(self, "identity", None))
        x1 == IF hasId THEN Exec(Append(path, "identity"), out, x_)
              ELSE [self |-> out.self, heap |-> out.heap, id |-> x_]
        sum == Add_exec(x1, out.id, x1.id)
    IN  Exec(Append(path, "act"), sum, sum.id)

MDRBlockA_exec(path, env, x_) ==
    LET branch0 == Exec(Append(path, "branch0"), env, x_)
        branch1 == Exec(Append(path, "branch1"), branch0, x_)
        out == Cat_exec(branch1, branch0.id, branch1.id)
        out1 == Exec(Append(path, "exit"), out, out.id)
    IN  Add_exec(out1, out1.id, x_)

MDRBlockB_exec(path, env, x_) ==
    LET branch1 == Exec(Append(path, "branch1"), env, x_)
        branch2 == Exec(Append(path, "branch2"), branch1, x_)
        out == Cat_exec(branch2, branch1.id, branch2.id)
        out1 == Exec(Append(path, "exit"), out, out.id)
    IN  Add_exec(out1, out1.id, x_)

UpsampleBlock_exec(path, env, x_) == Exec(Append(path, "body"), env, x_)

\* module(x): the forward of the module at path, on the tensor object id.
Exec(path, env, id) ==
    LET m == Get(env.self, path) IN
    CASE m.kind = "Conv2d"        -> Alloc(env, ConvVal(m.weight, env.heap[id]))
      [] m.kind = "ReLU"          -> Alloc(env, ReluVal(env.heap[id]))
      [] m.kind = "PixelShuffle"  -> Alloc(env, ShuffleVal(env.heap[id]))
      [] m.kind = "Sequential"    -> Sequential_exec(path, 1, env, id)
      [] m.kind = "MeanShift"     -> MeanShift_exec(path, env, id)
      [] m.kind = "BasicBlock"    -> BasicBlock_exec(path, env, id)
      [] m.kind = "MDBlock"       -> MDBlock_exec(path, env, id)
      [] m.kind = "ResidualBlock" -> ResidualBlock_exec(path, env, id)
      [] m.kind = "MDRBlockA"     -> MDRBlockA_exec(path, env, id)
      [] m.kind = "MDRBlockB"     -> MDRBlockB_exec(path, env, id)
      [] m.kind = "UpsampleBlock" -> UpsampleBlock_exec(path, env, id)

\* The constructor returned the module m.
PureBuilt(m) ==
    /\ pmod' = m
    /\ pmod0' = m
    /\ pin' = [before |-> 0, after |-> 0]
    /\ pout' = [value |-> 0, isInput |-> FALSE]
    /\ seen' = {}
    /\ UNCHANGED <<shapeVars, msVars>>

\* y = module(x) with x a tensor of content v: cell 1 is the caller's x.
PureCalled(v) ==
    LET r == Exec(<<>>, [self |-> pmod, heap |-> <<v>>, id |-> 1], 1) IN
    /\ pmod' = r.self
    /\ pin' = [before |-> v, after |-> r.heap[1]]
    /\ pout' = [value |-> r.heap[r.id], isInput |-> (r.id = 1)]
    /\ seen' = seen \cup {<<v, r.heap[r.id]>>}
    /\ UNCHANGED <<pmod0, shapeVars, msVars>>

PureNewMeanShift ==
    /\ pmod.kind = "None"
    /\ \E w \in Weights : PureBuilt(WithWeights(MeanShiftShape, w))

PureNewBasicBlock ==
    /\ pmod.kind = "None"
    /\ \E w \in Weights, d \in 1..2 : PureBuilt(WithWeights(BasicBlock(2, 2, d, ReLU), w))

PureNewMDBlock ==
    /\ pmod.kind = "None"
    /\ \E w \in Weights : PureBuilt(WithWeights(MDBlock(2, 2, <<2, 4>>, ReLU), w))

PureNewResidualBlock ==
    /\ pmod.kind = "None"
    /\ \E w \in Weights, i \in 1..2 :
        PureBuilt(WithWeights(ResidualBlock(i, 2, 1, ReLU), w))

PureNewMDRBlockA ==
    /\ pmod.kind = "None"
    /\ \E w \in Weights : PureBuilt(WithWeights(MDRBlockA(2, 2, <<2, 4>>, ReLU), w))

PureNewMDRBlockB ==
    /\ pmod.kind = "None"
    /\ \E w \in Weights, r \in 1..2 :
        PureBuilt(WithWeights(MDRBlockB(2, r, 2, <<2, 4>>, ReLU), w))

PureNewUpsampleBlock ==
    /\ pmod.kind = "None"
    /\ \E w \in Weights, s \in {PyInt(2), PyInt(3), PyInt(4), None}, act \in {False, ReLU} :
        PureBuilt(WithWeights(UpsampleBlock(1, s, act), w))

PureMeanShiftForward ==
    /\ pmod.kind = "MeanShift"
    /\ \E v \in Vals : PureCalled(v)

PureBasicBlockForward ==
    /\ pmod.kind = "BasicBlock"
    /\ \E v \in Vals : PureCalled(v)

PureMDBlockForward ==
    /\ pmod.kind = "MDBlock"
    /\ \E v \in Vals : PureCalled(v)

PureResidualBlockForward ==
    /\ pmod.kind = "ResidualBlock"
    /\ \E v \in Vals : PureCalled(v)

PureMDRBlockAForward ==
    /\ pmod.kind = "MDRBlockA"
    /\ \E v \in Vals : PureCalled(v)

PureMDRBlockBForward ==
    /\ pmod.kind = "MDRBlockB"
    /\ \E v \in Vals : PureCalled(v)

PureUpsampleBlockForward ==
    /\ pmod.kind = "UpsampleBlock"
    /\ \E v \in Vals : PureCalled(v)

NextPure ==
    \/ PureNewMeanShift \/ PureNewBasicBlock \/ PureNewMDBlock
    \/ PureNewResidualBlock \/ PureNewMDRBlockA \/ PureNewMDRBlockB
    \/ PureNewUpsampleBlock
    \/ PureMeanShiftForward \/ PureBasicBlockForward \/ PureMDBlockForward
    \/ PureResidualBlockForward \/ PureMDRBlockAForward \/ PureMDRBlockBForward
    \/ PureUpsampleBlockForward

SpecPure == Init /\ [][NextPure]_vars

(***************************************************************************)
(* C3.  After any sequence of forward calls of any block, the module       *)
(* object (weights, biases, attributes) is as constructed, the caller's    *)
(* input tensor holds what it held before the call, and calls with the     *)
(* same input returned the same output.                                    *)
(***************************************************************************)
C3_ForwardIsPure ==
    /\ pmod = pmod0
    /\ pin.after = pin.before
    /\ \A p \in seen, q \in seen : p[1] = q[1] => p[2] = q[2]

C3_Witness ==
    /\ pmod.kind = "ResidualBlock"
    /\ "identity" \notin DOMAIN pmod
    /\ Cardinality(seen) = ValMod
    /\ pin.before = 2 /\ pin.after = 2
    /\ pout.value # pin.before

=============================================================================
